---- MODULE Spec2Model ----
(***************************************************************************)
(* Model of the jenkins_credential_ssh resource                            *)
(* (src/jenkins/resource_jenkins_credential_ssh.go): the Create, Read,     *)
(* Update, Delete and Import handlers acting on one schema.ResourceData    *)
(* record `d` against a remote Jenkins credential store.                   *)
(*                                                                         *)
(* Go strings that the code inspects (identifiers, names, folders, error   *)
(* texts, the passphrase) are sequences of one-character strings, so that  *)
(* strings.Split, strings.Join, strings.Trim, strings.HasSuffix and len    *)
(* are computed.  Strings the code only copies (scope, description,        *)
(* username, private key) are atoms.                                       *)
(***************************************************************************)
EXTENDS Integers, Sequences, FiniteSets, TLC

VARIABLES d, remote, last

vars == <<d, remote, last>>

\* ---------------------------------------------------------------- bounds
\* Longest import string that is tried.
MaxLen == 5
\* Number of credentials the remote store holds before Add is refused.
MaxCreds == 1

Alphabet == {"a", "_", "/"}

\* All strings over Alphabet of length at most n.
Strings(n) == UNION {[1..k -> Alphabet] : k \in 0..n}

ImportIds == Strings(MaxLen)

\* ------------------------------------------------------- string functions
Slash == "/"

RECURSIVE SplitAcc(_, _, _, _, _)
SplitAcc(s, sep, i, cur, acc) ==
    IF i > Len(s) THEN Append(acc, cur)
    ELSE IF s[i] = sep THEN SplitAcc(s, sep, i + 1, <<>>, Append(acc, cur))
    ELSE SplitAcc(s, sep, i + 1, Append(cur, s[i]), acc)

\* strings.Split(s, sep) for a one-character separator: always at least one
\* segment, Split("") = [""].
Split(s, sep) == SplitAcc(s, sep, 1, <<>>, <<>>)

RECURSIVE Join(_, _)
\* strings.Join(parts, sep)
Join(parts, sep) ==
    IF Len(parts) = 0 THEN <<>>
    ELSE IF Len(parts) = 1 THEN parts[1]
    ELSE parts[1] \o <<sep>> \o Join(Tail(parts), sep)

RECURSIVE TrimLeft(_, _)
TrimLeft(s, c) ==
    IF Len(s) > 0 /\ s[1] = c THEN TrimLeft(Tail(s), c) ELSE s

RECURSIVE TrimRight(_, _)
TrimRight(s, c) ==
    IF Len(s) > 0 /\ s[Len(s)] = c THEN TrimRight(SubSeq(s, 1, Len(s) - 1), c) ELSE s

\* strings.Trim(s, cutset) for a one-character cutset
Trim(s, c) == TrimRight(TrimLeft(s, c), c)

\* strings.HasSuffix(s, suffix)
HasSuffix(s, suffix) ==
    /\ Len(s) >= Len(suffix)
    /\ SubSeq(s, Len(s) - Len(suffix) + 1, Len(s)) = suffix

\* ----------------------------------------------------------------- errors
Nil == [ok |-> TRUE, text |-> <<>>]
Error(t) == [ok |-> FALSE, text |-> t]

S404 == <<"4", "0", "4">>

\* Error texts the remote client can give to GetSingle: the bare status,
\* a wrapped text ending in the status, a text that contains but does not
\* end in it, a text shorter than it, and another status.
GetErrTexts ==
    { S404,
      <<"x", " ", "4", "0", "4">>,
      <<"4", "0", "4", "0">>,
      <<"0", "4">>,
      <<"5", "0", "0">> }

GetFaults == {Nil} \cup {Error(t) : t \in GetErrTexts}

S500 == <<"5", "0", "0">>
S409 == <<"4", "0", "9">>

WriteFaults == {Nil, Error(S500)}

\* ------------------------------------------------------- the record (d)
\* A schema.ResourceData that carries only an Id, as the importer receives.
BlankRecord(id) ==
    [ id |-> id, name |-> <<>>, domain |-> <<>>, folder |-> <<>>,
      scope |-> "", description |-> "", username |-> "",
      privatekey |-> "", passphrase |-> <<>> ]

\* Values a configuration can give to the schema's fields.
NameSet == {<<"_", "a">>}
DomainSet == {<<"_">>}
FolderSet == {<<>>, <<"a">>}
ScopeSet == {"GLOBAL", "SYSTEM"}
DescriptionSet == {"Managed by Terraform", "deploy key"}
UsernameSet == {"git"}
PrivateKeySet == {"key1", "key2"}
PassphraseSet == {<<>>, <<"p">>}

\* What GetSingle hands back in place of the secrets.
Garbage == "garbage"
GarbagePassphrase == <<"*">>


\* ---------------------------------------------------- helpers not in src
\* generateCredentialID(folder, name): the handlers call it with the folder
\* and the name only (lines 109, 135, 171, 208); its body is modelled from
\* the specification's identifier shape, the leading folder segment being
\* omitted when the folder is empty.
generateCredentialID(folder, name) ==
    IF folder = <<>> THEN name ELSE folder \o <<Slash>> \o name

\* compose(folder, domain, name): the specification's three-part
\* identifier "[folder/]domain/name".
compose(folder, domain, name) ==
    IF folder = <<>> THEN domain \o <<Slash>> \o name
    ELSE folder \o <<Slash>> \o domain \o <<Slash>> \o name

\* formatFolderName(folder): the folder the credentials manager is scoped
\* to; the specification only says that calls are scoped to the Folder.
formatFolderName(folder) == folder

\* folderExists(ctx, client, folder): nil when the folder is empty or the
\* remote container is present, an error otherwise.
folderExists(folder, present) ==
    IF folder = <<>> \/ present THEN Nil ELSE Error(S404)

\* ------------------------------------------------- the remote store (cm)
\* The store is a set of entries [folder, domain, cred]; at most one entry
\* per (folder, domain, cred.ID).
Has(store, folder, domain, id) ==
    \E e \in store : e.folder = folder /\ e.domain = domain /\ e.cred.ID = id

Entry(store, folder, domain, id) ==
    CHOOSE e \in store : e.folder = folder /\ e.domain = domain /\ e.cred.ID = id

EmptyCred ==
    [ ID |-> <<>>, Scope |-> "", Description |-> "", Username |-> "",
      PrivateKeySource |-> [Class |-> "", Value |-> ""], Passphrase |-> <<>> ]

\* What the store keeps of a payload; the secrets are not given back.
Stored(cred) ==
    [ ID |-> cred.ID, Scope |-> cred.Scope, Description |-> cred.Description,
      Username |-> cred.Username ]

\* cm.GetSingle(ctx, domain, name, &cred): the error, and cred as filled.
GetSingle(store, folder, domain, name, fault) ==
    IF ~fault.ok THEN [err |-> fault, cred |-> EmptyCred]
    ELSE IF ~Has(store, folder, domain, name)
    THEN [err |-> Error(S404), cred |-> EmptyCred]
    ELSE LET c == Entry(store, folder, domain, name).cred
         IN  [ err |-> Nil,
               cred |-> [ ID |-> c.ID, Scope |-> c.Scope,
                          Description |-> c.Description,
                          Username |-> c.Username,
                          PrivateKeySource |-> [Class |-> "", Value |-> Garbage],
                          Passphrase |-> GarbagePassphrase ] ]

\* cm.Add(ctx, domain, cred): the error and the store afterwards.
Add(store, folder, domain, cred, fault) ==
    IF ~fault.ok THEN [err |-> fault, store |-> store]
    ELSE IF Has(store, folder, domain, cred.ID)
    THEN [err |-> Error(S409), store |-> store]
    ELSE IF Cardinality(store) >= MaxCreds
    THEN [err |-> Error(S500), store |-> store]
    ELSE [ err |-> Nil,
           store |-> store \cup
               {[folder |-> folder, domain |-> domain, cred |-> Stored(cred)]} ]

\* cm.Update(ctx, domain, name, &cred): a full overwrite of the entry.
UpdateRemote(store, folder, domain, name, cred, fault) ==
    IF ~fault.ok THEN [err |-> fault, store |-> store]
    ELSE IF ~Has(store, folder, domain, name)
    THEN [err |-> Error(S404), store |-> store]
    ELSE [ err |-> Nil,
           store |-> (store \ {Entry(store, folder, domain, name)}) \cup
               {[folder |-> folder, domain |-> domain, cred |-> Stored(cred)]} ]

\* cm.Delete(ctx, domain, name)
DeleteRemote(store, folder, domain, name, fault) ==
    IF ~fault.ok THEN [err |-> fault, store |-> store]
    ELSE IF ~Has(store, folder, domain, name)
    THEN [err |-> Error(S404), store |-> store]
    ELSE [err |-> Nil, store |-> store \ {Entry(store, folder, domain, name)}]

\* ------------------------------------------------------------- handlers
\* What a handler call did: the record and the store afterwards, whether
\* diagnostics (an error) were returned, the remote calls issued in order,
\* the payloads handed to Add/Update, and what each call gave back, each in
\* a sequence that is empty when the call was not made: the error of
\* folderExists (probe), the error of Add/Update/Delete (wrote), the error
\* and the filled credential of GetSingle (got).
Result(rec, store, failed, calls, payloads, probe, wrote, got) ==
    [ d |-> rec, store |-> store, failed |-> failed, calls |-> calls,
      payloads |-> payloads, probe |-> probe, wrote |-> wrote, got |-> got ]

\* Read with the not-found test written as an equality with "404".
Read_ExactMatch404(d0, store, getFault) ==
    LET cmFolder == formatFolderName(d0.folder)
        got == GetSingle(store, cmFolder, d0.domain, d0.name, getFault)
        cred == got.cred
    IN  IF ~got.err.ok
        THEN IF got.err.text = S404
             THEN Result([d0 EXCEPT !.id = <<>>], store, FALSE,
                         <<"GetSingle">>, <<>>, <<>>, <<>>, <<got>>)
             ELSE Result(d0, store, TRUE,
                         <<"GetSingle">>, <<>>, <<>>, <<>>, <<got>>)
        ELSE Result([d0 EXCEPT !.id = generateCredentialID(d0.folder, cred.ID),
                               !.scope = cred.Scope,
                               !.description = cred.Description],
                    store, FALSE, <<"GetSingle">>, <<>>, <<>>, <<>>, <<got>>)

\* Read that also copies the private key GetSingle filled in.
Read_SetsPrivateKey(d0, store, getFault) ==
    LET cmFolder == formatFolderName(d0.folder)
        got == GetSingle(store, cmFolder, d0.domain, d0.name, getFault)
        cred == got.cred
    IN  IF ~got.err.ok
        THEN IF HasSuffix(got.err.text, S404)
             THEN Result([d0 EXCEPT !.id = <<>>], store, FALSE,
                         <<"GetSingle">>, <<>>, <<>>, <<>>, <<got>>)
             ELSE Result(d0, store, TRUE,
                         <<"GetSingle">>, <<>>, <<>>, <<>>, <<got>>)
        ELSE Result([d0 EXCEPT !.id = generateCredentialID(d0.folder, cred.ID),
                               !.scope = cred.Scope,
                               !.description = cred.Description,
                               !.privatekey = cred.PrivateKeySource.Value],
                    store, FALSE, <<"GetSingle">>, <<>>, <<>>, <<>>, <<got>>)

\* Read that builds the identifier from the credential's ID alone.
Read_IdWithoutFolder(d0, store, getFault) ==
    LET cmFolder == formatFolderName(d0.folder)
        got == GetSingle(store, cmFolder, d0.domain, d0.name, getFault)
        cred == got.cred
    IN  IF ~got.err.ok
        THEN IF HasSuffix(got.err.text, S404)
             THEN Result([d0 EXCEPT !.id = <<>>], store, FALSE,
                         <<"GetSingle">>, <<>>, <<>>, <<>>, <<got>>)
             ELSE Result(d0, store, TRUE,
                         <<"GetSingle">>, <<>>, <<>>, <<>>, <<got>>)
        ELSE Result([d0 EXCEPT !.id = generateCredentialID(<<>>, cred.ID),
                               !.scope = cred.Scope,
                               !.description = cred.Description],
                    store, FALSE, <<"GetSingle">>, <<>>, <<>>, <<>>, <<got>>)

\* Read, lines 113-142.
resourceJenkinsCredentialSSHRead(d0, store, getFault) ==
    LET cmFolder == formatFolderName(d0.folder)
        got == GetSingle(store, cmFolder, d0.domain, d0.name, getFault)
        cred == got.cred
    IN  IF ~got.err.ok
        THEN IF HasSuffix(got.err.text, S404)
             THEN Result([d0 EXCEPT !.id = <<>>], store, FALSE,
                         <<"GetSingle">>, <<>>, <<>>, <<>>, <<got>>)
             ELSE Result(d0, store, TRUE,
                         <<"GetSingle">>, <<>>, <<>>, <<>>, <<got>>)
        ELSE Result([d0 EXCEPT !.id = generateCredentialID(d0.folder, cred.ID),
                               !.scope = cred.Scope,
                               !.description = cred.Description],
                    store, FALSE, <<"GetSingle">>, <<>>, <<>>, <<>>, <<got>>)

\* The payload with the passphrase test off by one (len(passphrase) > 1).
SSHCredentials_PassphraseOffByOne(d0) ==
    [ ID |-> d0.name, Scope |-> d0.scope, Description |-> d0.description,
      Username |-> d0.username,
      PrivateKeySource |-> [Class |-> "DirectEntry", Value |-> d0.privatekey],
      Passphrase |-> IF Len(d0.passphrase) > 1 THEN d0.passphrase ELSE <<>> ]

\* The payload built by Create (lines 87-101) and by Update (lines 150-164).
SSHCredentials(d0) ==
    [ ID |-> d0.name, Scope |-> d0.scope, Description |-> d0.description,
      Username |-> d0.username,
      PrivateKeySource |-> [Class |-> "DirectEntry", Value |-> d0.privatekey],
      Passphrase |-> IF Len(d0.passphrase) > 0 THEN d0.passphrase ELSE <<>> ]

\* The tail of Create and Update (lines 109-110, 171-172): the identifier
\* is set and the handler returns what Read returns.
SetIdThenRead(first, id, getFault) ==
    LET r == resourceJenkinsCredentialSSHRead([first.d EXCEPT !.id = id],
                                              first.store, getFault)
    IN  Result(r.d, r.store, r.failed, first.calls \o r.calls, first.payloads,
               first.probe, first.wrote, r.got)

\* Create that goes on to the write when the folder probe failed.
Create_IgnoresProbe(d0, store, present, addFault, getFault) ==
    LET cmFolder == formatFolderName(d0.folder)
        probed == folderExists(cmFolder, present)
        cred == SSHCredentials(d0)
        added == Add(store, cmFolder, d0.domain, cred, addFault)
        written == Result(d0, added.store, ~added.err.ok,
                          <<"folderExists", "Add">>, <<cred>>,
                          <<probed>>, <<added.err>>, <<>>)
    IN  IF ~added.err.ok
        THEN written
        ELSE SetIdThenRead(written,
                           generateCredentialID(d0.folder, cred.ID), getFault)

\* Create that sets the identifier before the write.
Create_SetIdBeforeAdd(d0, store, present, addFault, getFault) ==
    LET cmFolder == formatFolderName(d0.folder)
        probed == folderExists(cmFolder, present)
        cred == SSHCredentials(d0)
        added == Add(store, cmFolder, d0.domain, cred, addFault)
        d1 == [d0 EXCEPT !.id = generateCredentialID(d0.folder, cred.ID)]
        written == Result(d1, added.store, ~added.err.ok,
                          <<"folderExists", "Add">>, <<cred>>,
                          <<probed>>, <<added.err>>, <<>>)
    IN  IF ~probed.ok
        THEN Result(d0, store, TRUE, <<"folderExists">>, <<>>,
                    <<probed>>, <<>>, <<>>)
        ELSE IF ~added.err.ok
        THEN written
        ELSE SetIdThenRead(written,
                           generateCredentialID(d0.folder, cred.ID), getFault)

\* Create, lines 77-111.
resourceJenkinsCredentialSSHCreate(d0, store, present, addFault, getFault) ==
    LET cmFolder == formatFolderName(d0.folder)
        probed == folderExists(cmFolder, present)
        cred == SSHCredentials(d0)
        added == Add(store, cmFolder, d0.domain, cred, addFault)
        written == Result(d0, added.store, ~added.err.ok,
                          <<"folderExists", "Add">>, <<cred>>,
                          <<probed>>, <<added.err>>, <<>>)
    IN  IF ~probed.ok
        THEN Result(d0, store, TRUE, <<"folderExists">>, <<>>,
                    <<probed>>, <<>>, <<>>)
        ELSE IF ~added.err.ok
        THEN written
        ELSE SetIdThenRead(written,
                           generateCredentialID(d0.folder, cred.ID), getFault)

\* Update, lines 144-173.
resourceJenkinsCredentialSSHUpdate(d0, store, updFault, getFault) ==
    LET cmFolder == formatFolderName(d0.folder)
        cred == SSHCredentials(d0)
        upd == UpdateRemote(store, cmFolder, d0.domain, d0.name, cred, updFault)
        written == Result(d0, upd.store, ~upd.err.ok, <<"Update">>, <<cred>>,
                          <<>>, <<upd.err>>, <<>>)
    IN  IF ~upd.err.ok
        THEN written
        ELSE SetIdThenRead(written,
                           generateCredentialID(d0.folder, cred.ID), getFault)

\* Delete, lines 175-189.
resourceJenkinsCredentialSSHDelete(d0, store, delFault) ==
    LET cmFolder == formatFolderName(d0.folder)
        del == DeleteRemote(store, cmFolder, d0.domain, d0.name, delFault)
    IN  Result(d0, del.store, ~del.err.ok, <<"Delete">>, <<>>,
               <<>>, <<del.err>>, <<>>)

\* The three parts Import reads off the split identifier, lines 199-205.
ImportName(splitID) == splitID[Len(splitID)]

ImportDomain(splitID) == splitID[Len(splitID) - 1]

\* The folder taken one segment too far (it swallows the domain).
ImportFolder_OffByOne(splitID) ==
    Trim(Join(SubSeq(splitID, 1, Len(splitID) - 1), Slash), Slash)

\* The folder rejoined but not trimmed.
ImportFolder_NoTrim(splitID) ==
    Join(SubSeq(splitID, 1, Len(splitID) - 2), Slash)

ImportFolder(splitID) ==
    Trim(Join(SubSeq(splitID, 1, Len(splitID) - 2), Slash), Slash)

\* Import that sets the name before it checks the number of segments.
Import_SetsNameFirst(d0, store) ==
    LET splitID == Split(d0.id, Slash)
        d1 == [d0 EXCEPT !.name = ImportName(splitID)]
    IN  IF Len(splitID) < 2
        THEN Result(d1, store, TRUE, <<>>, <<>>, <<>>, <<>>, <<>>)
        ELSE LET name == ImportName(splitID)
                 domain == ImportDomain(splitID)
                 folder == ImportFolder(splitID)
             IN  Result([d1 EXCEPT !.domain = domain, !.folder = folder,
                                   !.id = generateCredentialID(folder, name)],
                        store, FALSE, <<>>, <<>>, <<>>, <<>>, <<>>)

\* Import that builds the identifier from the folder and the domain.
Import_IdFromDomain(d0, store) ==
    LET splitID == Split(d0.id, Slash)
    IN  IF Len(splitID) < 2
        THEN Result(d0, store, TRUE, <<>>, <<>>, <<>>, <<>>, <<>>)
        ELSE LET name == ImportName(splitID)
                 domain == ImportDomain(splitID)
                 folder == ImportFolder(splitID)
             IN  Result([d0 EXCEPT !.name = name, !.domain = domain,
                                   !.folder = folder,
                                   !.id = generateCredentialID(folder, domain)],
                        store, FALSE, <<>>, <<>>, <<>>, <<>>, <<>>)

\* Import, lines 191-210.
resourceJenkinsCredentialSSHImport(d0, store) ==
    LET splitID == Split(d0.id, Slash)
    IN  IF Len(splitID) < 2
        THEN Result(d0, store, TRUE, <<>>, <<>>, <<>>, <<>>, <<>>)
        ELSE LET name == ImportName(splitID)
                 domain == ImportDomain(splitID)
                 folder == ImportFolder(splitID)
             IN  Result([d0 EXCEPT !.name = name, !.domain = domain,
                                   !.folder = folder,
                                   !.id = generateCredentialID(folder, name)],
                        store, FALSE, <<>>, <<>>, <<>>, <<>>, <<>>)

\* ----------------------------------------------------------- the machine
\* `last` is the last handler call: which handler, the record it was given
\* and what it returned.
Last(op, pre, r) ==
    [ op |-> op, pre |-> pre, failed |-> r.failed, calls |-> r.calls,
      payloads |-> r.payloads, probe |-> r.probe, wrote |-> r.wrote,
      got |-> r.got ]

\* A step that is not a handler call.
NoOp(op, rec) ==
    [ op |-> op, pre |-> rec, failed |-> FALSE, calls |-> <<>>,
      payloads |-> <<>>, probe |-> <<>>, wrote |-> <<>>, got |-> <<>> ]

Init ==
    /\ d = BlankRecord(<<>>)
    /\ remote = {}
    /\ last = NoOp("Init", BlankRecord(<<>>))

\* The record is in the framework's state: it has an identifier, and it is
\* not the leftover of an import that failed (which the framework drops).
Live == d.id # <<>> /\ ~(last.op = "Import" /\ last.failed)

\* No record: the resource is not in the framework's state.
Absent == d = BlankRecord(<<>>)

\* The record carries its attributes: it was planned from a configuration
\* or refreshed by a Read (scope is validated, never empty in either).
Hydrated == d.scope # ""

\* The framework hands the configuration to the record: every field of a
\* record that is not in the state (a resource to create), and only the
\* fields that are not ForceNew of one that is (schema, lines 22-73).  An
\* imported record is read before it is planned.
Plan ==
    /\ Absent \/ (Live /\ Hydrated)
    /\ \E scope \in ScopeSet, description \in DescriptionSet,
          username \in UsernameSet, privatekey \in PrivateKeySet,
          passphrase \in PassphraseSet :
         LET mutable(rec) == [rec EXCEPT !.scope = scope,
                                         !.description = description,
                                         !.username = username,
                                         !.privatekey = privatekey,
                                         !.passphrase = passphrase]
         IN  IF Live
             THEN d' = mutable(d)
             ELSE \E name \in NameSet, domain \in DomainSet, folder \in FolderSet :
                    d' = mutable([BlankRecord(<<>>) EXCEPT !.name = name,
                                                          !.domain = domain,
                                                          !.folder = folder])
    /\ last' = NoOp("Plan", d')
    /\ UNCHANGED remote

Apply(op, pre, r) ==
    /\ d' = r.d
    /\ remote' = r.store
    /\ last' = Last(op, pre, r)

\* The framework calls Create with the planned record of a resource that
\* is not in the state.
Create ==
    /\ last.op = "Plan"
    /\ d.id = <<>>
    /\ \E present \in BOOLEAN, addFault \in WriteFaults, getFault \in GetFaults :
         Apply("Create", d,
               resourceJenkinsCredentialSSHCreate(d, remote, present, addFault, getFault))

Read ==
    /\ Live
    /\ \E getFault \in GetFaults :
         Apply("Read", d, resourceJenkinsCredentialSSHRead(d, remote, getFault))

\* The framework calls Update with the planned record of a resource that
\* is in the state.
Update ==
    /\ last.op = "Plan"
    /\ Live
    /\ \E updFault \in WriteFaults, getFault \in GetFaults :
         Apply("Update", d,
               resourceJenkinsCredentialSSHUpdate(d, remote, updFault, getFault))

Delete ==
    /\ Live
    /\ \E delFault \in WriteFaults :
         Apply("Delete", d, resourceJenkinsCredentialSSHDelete(d, remote, delFault))

\* terraform import: a record carrying only the identifier typed by the
\* operator is given to the importer.
Import ==
    /\ Absent
    /\ \E id \in ImportIds :
        Apply("Import", BlankRecord(id),
              resourceJenkinsCredentialSSHImport(BlankRecord(id), remote))

\* The framework drops a record that did not make it into the state or
\* that a Read found gone (identifier cleared).
Drop ==
    /\ ~Live
    /\ ~Absent
    /\ d' = BlankRecord(<<>>)
    /\ last' = NoOp("Init", BlankRecord(<<>>))
    /\ UNCHANGED remote

\* Somebody else edits or removes a credential on the server.
RemoteEdit ==
    /\ \E e \in remote, scope \in ScopeSet, description \in DescriptionSet :
         /\ e.cred.Scope # scope \/ e.cred.Description # description
         /\ remote' = (remote \ {e}) \cup
              {[e EXCEPT !.cred.Scope = scope, !.cred.Description = description]}
    /\ UNCHANGED <<d, last>>

RemoteDelete ==
    /\ \E e \in remote : remote' = remote \ {e}
    /\ UNCHANGED <<d, last>>

Next ==
    \/ Plan
    \/ Create
    \/ Read
    \/ Update
    \/ Delete
    \/ Import
    \/ Drop
    \/ RemoteEdit
    \/ RemoteDelete

Spec == Init /\ [][Next]_vars

\* ------------------------------------------------------------ properties
\* The last step was a call of the handler `op`.
Called(op) == last.op = op

\* The text ends in the three characters 4, 0, 4.
EndsIn404(t) ==
    /\ Len(t) >= 3
    /\ t[Len(t) - 2] = "4"
    /\ t[Len(t) - 1] = "0"
    /\ t[Len(t)] = "4"

\* GetSingle was called in the last step and gave an error ending in "404".
Got404 == last.got # <<>> /\ ~last.got[1].err.ok /\ EndsIn404(last.got[1].err.text)

\* GetSingle was called in the last step and gave no error.
GotCred == last.got # <<>> /\ last.got[1].err.ok

InCalls(c) == \E i \in 1..Len(last.calls) : last.calls[i] = c

\* C1: whenever GetSingle fails with an error whose text ends in "404", in
\* Read called directly and in the read-back of Create and Update, the
\* identifier is cleared and no error is returned.
C1_NotFoundClearsId ==
    ((Called("Read") \/ Called("Create") \/ Called("Update")) /\ Got404)
        => (d.id = <<>> /\ ~last.failed)

\* A Read of a record in the state got "x 404" and cleared the identifier.
C1_Witness ==
    /\ Called("Read")
    /\ last.pre.id # <<>>
    /\ Got404
    /\ last.got[1].err.text = <<"x", " ", "4", "0", "4">>
    /\ d.id = <<>>

\* C2: Read leaves privatekey, passphrase, name, domain, folder and
\* username as they were, for every outcome of GetSingle; on success scope
\* and description are those of the remote object.
C2_ReadKeepsSecrets ==
    Called("Read") =>
        /\ d.privatekey = last.pre.privatekey
        /\ d.passphrase = last.pre.passphrase
        /\ d.name = last.pre.name
        /\ d.domain = last.pre.domain
        /\ d.folder = last.pre.folder
        /\ d.username = last.pre.username
        /\ GotCred => /\ d.scope = last.got[1].cred.Scope
                      /\ d.description = last.got[1].cred.Description
        /\ ~GotCred => /\ d.scope = last.pre.scope
                       /\ d.description = last.pre.description

\* A successful Read refreshed the scope while GetSingle had filled in a
\* private key and a passphrase other than the record's.
C2_Witness ==
    /\ Called("Read")
    /\ GotCred
    /\ d.scope # last.pre.scope
    /\ last.got[1].cred.PrivateKeySource.Value # d.privatekey
    /\ last.got[1].cred.Passphrase # d.passphrase
    /\ d.privatekey # ""

\* C3: when the folder probe of a Create returns an error, Create returns
\* an error, issues no Add and no GetSingle, and the identifier stays unset.
C3_BadFolderAbortsCreate ==
    (Called("Create") /\ last.probe # <<>> /\ ~last.probe[1].ok) =>
        /\ last.failed
        /\ ~InCalls("Add")
        /\ ~InCalls("GetSingle")
        /\ last.payloads = <<>>
        /\ d.id = <<>>

\* A Create whose folder probe failed.
C3_Witness ==
    /\ Called("Create")
    /\ last.probe # <<>>
    /\ ~last.probe[1].ok
    /\ last.pre.folder # <<>>
    /\ last.failed

\* C4: when Add returns an error, Create returns an error, the identifier
\* stays unset, no field of the record changes and there is no read-back.
C4_FailedAddKeepsRecord ==
    (Called("Create") /\ last.wrote # <<>> /\ ~last.wrote[1].ok) =>
        /\ last.failed
        /\ d.id = <<>>
        /\ d = last.pre
        /\ ~InCalls("GetSingle")

\* A Create whose Add failed.
C4_Witness ==
    /\ Called("Create")
    /\ last.wrote # <<>>
    /\ ~last.wrote[1].ok
    /\ InCalls("Add")
    /\ last.failed

\* C5 as stated: whenever Create returns without error the identifier is
\* generateCredentialID(folder, name) of the record and is not empty.
C5_Original ==
    (Called("Create") /\ ~last.failed) =>
        (d.id = generateCredentialID(d.folder, d.name) /\ d.id # <<>>)

\* C5 amended: whenever Create returns without error, either the read-back
\* lookup failed with an error ending in "404" and the identifier is empty,
\* or the identifier is generateCredentialID(folder, name) of the record
\* and is not empty.
C5_CreateSetsId ==
    (Called("Create") /\ ~last.failed) =>
        IF Got404
        THEN d.id = <<>>
        ELSE d.id = generateCredentialID(d.folder, d.name) /\ d.id # <<>>

\* A Create in a folder returned without error and with an identifier.
C5_Witness ==
    /\ Called("Create")
    /\ ~last.failed
    /\ ~Got404
    /\ d.folder # <<>>
    /\ d.id # <<>>

MaxPart == 2

\* The strings without "/" of length at most n.
NoSlashStrings(n) == UNION {[1..k -> Alphabet \ {Slash}] : k \in 0..n}

\* The record with the given folder, domain and name and the identifier
\* composed from them.
Composed(folder, domain, name) ==
    [BlankRecord(compose(folder, domain, name)) EXCEPT
        !.folder = folder, !.domain = domain, !.name = name]

\* Every triple of strings without "/" is composed ...
InitRoundTrip ==
    /\ \E folder \in NoSlashStrings(MaxPart), domain \in NoSlashStrings(MaxPart),
          name \in NoSlashStrings(MaxPart) :
         last = NoOp("Compose", Composed(folder, domain, name))
    /\ d = BlankRecord(<<>>)
    /\ remote = {}

\* ... and the composed identifier is imported.
ImportComposed ==
    /\ last.op = "Compose"
    /\ LET r == resourceJenkinsCredentialSSHImport(BlankRecord(last.pre.id), remote)
       IN  /\ d' = r.d
           /\ remote' = r.store
           /\ last' = [last EXCEPT !.op = "Import", !.failed = r.failed]

NextRoundTrip == ImportComposed

RoundTripSpec == InitRoundTrip /\ [][NextRoundTrip]_vars

HasSlash(t) == \E i \in 1..Len(t) : t[i] = Slash

\* The position of the last "/" of t (t has one).
LastSlash(t) ==
    CHOOSE i \in 1..Len(t) :
        t[i] = Slash /\ \A j \in (i + 1)..Len(t) : t[j] # Slash

\* t is p without its leading and trailing "/".
IsTrimOf(p, t) ==
    /\ t = <<>> \/ (t[1] # Slash /\ t[Len(t)] # Slash)
    /\ \E i \in 0..Len(p) :
         /\ i + Len(t) <= Len(p)
         /\ \A k \in 1..i : p[k] = Slash
         /\ \A k \in 1..Len(t) : p[i + k] = t[k]
         /\ \A k \in (i + Len(t) + 1)..Len(p) : p[k] = Slash

\* C8: Import of a string with at least two "/"-separated segments returns
\* no error; name is the last segment, domain the one before it, folder
\* what precedes them, trimmed of leading and trailing "/" (empty when
\* there are exactly two segments).
C8_ImportParts ==
    (Called("Import") /\ HasSlash(last.pre.id)) =>
        LET id == last.pre.id
            p2 == LastSlash(id)
            head == SubSeq(id, 1, p2 - 1)
            p1 == IF HasSlash(head) THEN LastSlash(head) ELSE 0
            before == IF p1 > 1 THEN SubSeq(id, 1, p1 - 1) ELSE <<>>
        IN  /\ ~last.failed
            /\ d.name = SubSeq(id, p2 + 1, Len(id))
            /\ d.domain = SubSeq(id, p1 + 1, p2 - 1)
            /\ IsTrimOf(before, d.folder)
            /\ p1 = 0 => d.folder = <<>>

\* Import of "//_/a": the folder is what trimming leaves of "/".
C8_Witness ==
    /\ Called("Import")
    /\ last.pre.id = <<"/", "/", "_", "/", "a">>
    /\ d.name = <<"a">>
    /\ d.domain = <<"_">>
    /\ d.folder = <<>>
    /\ ~last.failed

\* C9: Import of a string without "/" fails and leaves name, domain, folder
\* and identifier as they were.
C9_ImportFormatError ==
    (Called("Import") /\ ~HasSlash(last.pre.id)) =>
        /\ last.failed
        /\ d.name = last.pre.name
        /\ d.domain = last.pre.domain
        /\ d.folder = last.pre.folder
        /\ d.id = last.pre.id

\* Import of "a_a" failed.
C9_Witness ==
    /\ Called("Import")
    /\ last.pre.id = <<"a", "_", "a">>
    /\ last.failed
    /\ d.name = <<>>

\* C10: the payload Create hands to Add and Update hands to Update carries
\* the record's passphrase when it is not empty and none when it is; its
\* other fields are the record's name, scope, description, username and,
\* as a direct-entry key, privatekey.
C10_Payload ==
    ((Called("Create") \/ Called("Update")) /\ (InCalls("Add") \/ InCalls("Update"))) =>
        /\ Len(last.payloads) = 1
        /\ LET cred == last.payloads[1]
               rec == last.pre
           IN  /\ rec.passphrase # <<>> => cred.Passphrase = rec.passphrase
               /\ rec.passphrase = <<>> => cred.Passphrase = <<>>
               /\ cred.ID = rec.name
               /\ cred.Scope = rec.scope
               /\ cred.Description = rec.description
               /\ cred.Username = rec.username
               /\ cred.PrivateKeySource = [Class |-> "DirectEntry", Value |-> rec.privatekey]

\* An Update sent the record's passphrase with a SYSTEM scope.
C10_Witness ==
    /\ Called("Update")
    /\ InCalls("Update")
    /\ last.pre.passphrase = <<"p">>
    /\ last.payloads[1].Passphrase = <<"p">>
    /\ last.pre.scope = "SYSTEM"

====
